---- MODULE Spec2Model ----
(***************************************************************************)
(* State-machine model of assistant.py: the __main__ block (credentials,   *)
(* token, worker), the entrypoint coroutine (connect, handler              *)
(* registration, greeting, video observer loop), get_video_track, the      *)
(* _answer coroutine and the two event handlers that spawn it.             *)
(*                                                                         *)
(* Python values are represented as follows.                               *)
(*   str            a sequence of one-character strings                    *)
(*   Optional[x]    <<>> for None, <<x>> for a present value               *)
(*   track / frame  the pair <<p, i>>: publication i of participant p      *)
(* One action is one run of a coroutine between two suspension points      *)
(* (asyncio runs it without interleaving), or one synchronous callback.    *)
(***************************************************************************)
EXTENDS Integers, Sequences, FiniteSets, TLC

\* ---------------------------------------------------------------- bounds
MaxTasks == 2          \* respond tasks created in one run
MaxParticipants == 2   \* remote participants that join the room
MaxTracks == 2         \* publications in the room, over all participants
MaxBatch == 2          \* length of a function-calls-finished batch

\* ---------------------------------------------------------------- values
None == <<>>
Some(x) == <<x>>

\* Python truthiness of a str: non-empty.
StrTruthy(s) == Len(s) > 0

\* Python truthiness of an Optional[str]: not None and non-empty.
OptStrTruthy(o) == o # None /\ StrTruthy(o[1])

\* True of "" and of strings made of blanks only.
IsBlank(s) == \A i \in 1..Len(s) : s[i] = " "

\* What os.getenv can return for one variable: None, "", "k".
EnvValues == {None, Some(<<>>), Some(<<"k">>)}

\* The chat texts the room can deliver: "", " ", "a".
ChatTexts == {<<>>, <<" ">>, <<"a">>}

\* What arguments.get("user_msg") can return: None, "", "b".
UserMsgValues == {None, Some(<<>>), Some(<<"b">>)}

\* The called_functions lists the assistant can report; a called function is
\* reduced to call_info.arguments.get("user_msg").
Batches == UNION {[1..n -> UserMsgValues] : n \in 0..MaxBatch}

\* What a publication's track can be: None ("none"), a RemoteAudioTrack, a
\* RemoteVideoTrack.
TrackKinds == {"audio", "video"}

VARIABLES
  api_key,        \* os.getenv("LIVEKIT_API_KEY")
  api_secret,     \* os.getenv("LIVEKIT_API_SECRET")
  mainPc,         \* "start", "aborted" (ValueError), "worker" (cli.run_app)
  token,          \* Optional access token
  pc,             \* where entrypoint is suspended
  connection_state, \* ctx.room.connection_state
  room,           \* remote_participants: sequence of track_publications
  video_track,    \* Optional track held by the observer loop
  latest_image,   \* Optional frame
  chat_context,   \* chat_context.messages
  tasks,          \* the _answer tasks, in creation order
  event,          \* Optional event dispatched by the step into this state
  startup         \* the statements entrypoint has run so far, in order

vars == <<api_key, api_secret, mainPc, token, pc, connection_state, room,
          video_track, latest_image, chat_context, tasks, event, startup>>

mainVars == <<api_key, api_secret, mainPc, token>>
roomVars == <<connection_state, room>>
obsVars == <<pc, video_track, latest_image>>
chatVars == <<chat_context, tasks>>

Init ==
  /\ api_key \in EnvValues
  /\ api_secret \in EnvValues
  /\ mainPc = "start"
  /\ token = None
  /\ pc = "idle"
  /\ connection_state = "CONN_DISCONNECTED"
  /\ room = <<>>
  /\ video_track = None
  /\ latest_image = None
  /\ chat_context = <<>>
  /\ tasks = <<>>
  /\ event = None
  /\ startup = <<>>

\* ------------------------------------------------------------- __main__
\* api.AccessToken(api_key, api_secret).with_identity(..).with_name(..)
\*    .with_grants(VideoGrants(room_join=True, room="my-room")).to_jwt()
AccessToken(key, secret) ==
  [api_key |-> key, api_secret |-> secret, identity |-> "python-bot",
   name |-> "Python Bot", room_join |-> TRUE, room |-> "my-room"]

\* Main testing the variables for None only, so that an empty value passes.
Main_NoneOnly ==
  /\ mainPc = "start"
  /\ IF api_key = None \/ api_secret = None
       THEN /\ mainPc' = "aborted"
            /\ token' = token
       ELSE /\ token' = Some(AccessToken(api_key[1], api_secret[1]))
            /\ mainPc' = "worker"
  /\ event' = None
  /\ UNCHANGED <<api_key, api_secret, roomVars, obsVars, chatVars, startup>>

\* Lines 137-150: read the two variables, raise ValueError if one is falsy,
\* otherwise build the token and start the worker.
Main ==
  /\ mainPc = "start"
  /\ IF ~OptStrTruthy(api_key) \/ ~OptStrTruthy(api_secret)
       THEN /\ mainPc' = "aborted"
            /\ token' = token
       ELSE /\ token' = Some(AccessToken(api_key[1], api_secret[1]))
            /\ mainPc' = "worker"
  /\ event' = None
  /\ UNCHANGED <<api_key, api_secret, roomVars, obsVars, chatVars, startup>>

\* The worker started by cli.run_app calls entrypoint(ctx), which suspends
\* at `await ctx.connect()`.
JobStart ==
  /\ mainPc = "worker"
  /\ pc = "idle"
  /\ pc' = "connect"
  /\ event' = None
  /\ UNCHANGED <<mainVars, roomVars, video_track, latest_image, chatVars, startup>>

\* ------------------------------------------------------ get_video_track
\* An asyncio.Future: pending, or done with a result; `raised` records that
\* set_result was called on a done future (asyncio.InvalidStateError).
NewFuture == [done |-> FALSE, result |-> None, raised |-> FALSE]

\* Future.set_result(track).
SetResult(fut, track) ==
  IF fut.done
  THEN [fut EXCEPT !.raised = TRUE]
  ELSE [done |-> TRUE, result |-> Some(track), raised |-> FALSE]

\* Lines 43-45: track is not None and isinstance(track, RemoteVideoTrack).
IsVideo(publication) == publication = "video"

\* Lines 42-48: the loop over one participant's track_publications, from
\* publication i on; `break` leaves this loop only.
RECURSIVE ScanPublications(_, _, _, _)
ScanPublications(rm, p, i, fut) ==
  IF i > Len(rm[p]) THEN fut
  ELSE IF IsVideo(rm[p][i]) THEN SetResult(fut, <<p, i>>)
  ELSE ScanPublications(rm, p, i + 1, fut)

\* Lines 41-48: the loop over remote_participants, from participant p on; an
\* exception raised in the body ends it.
RECURSIVE ScanParticipants(_, _, _)
ScanParticipants(rm, p, fut) ==
  IF p > Len(rm) \/ fut.raised THEN fut
  ELSE ScanParticipants(rm, p + 1, ScanPublications(rm, p, 1, fut))

\* Lines 39-50, up to `await video_track`: the future the caller awaits.
get_video_track(rm) == ScanParticipants(rm, 1, NewFuture)

\* ---------------------------------------------------------- entrypoint
\* Lines 56-66: the system prompt.
SystemMessage == [role |-> "system", content |-> <<[kind |-> "text", text |-> <<"S">>, image |-> None]>>]

\* Connected with the assistant started before the handlers are registered.
Connected_StartFirst ==
  /\ pc = "connect"
  /\ connection_state' = "CONN_CONNECTED"
  /\ chat_context' = <<SystemMessage>>
  /\ latest_image' = None
  /\ pc' = "sleep"
  /\ startup' = <<"connect", "assistant.start", "on_message_received",
                  "on_function_calls_finished">>
  /\ event' = None
  /\ UNCHANGED <<mainVars, room, video_track, tasks>>

\* Lines 53-124: ctx.connect() returns; the chat context, the assistant and
\* both handlers are set up and the assistant is started; suspends at
\* `await asyncio.sleep(1)`.
Connected ==
  /\ pc = "connect"
  /\ connection_state' = "CONN_CONNECTED"
  /\ chat_context' = <<SystemMessage>>
  /\ latest_image' = None
  /\ pc' = "sleep"
  /\ startup' = <<"connect", "on_message_received", "on_function_calls_finished",
                  "assistant.start">>
  /\ event' = None
  /\ UNCHANGED <<mainVars, room, video_track, tasks>>

\* True once lines 104-122 have run: handlers registered, assistant started.
HandlersRegistered == pc \notin {"idle", "connect"}

\* Line 124 returns; suspends at line 125, `await assistant.say(greeting)`.
SleepDone ==
  /\ pc = "sleep"
  /\ pc' = "greeting"
  /\ startup' = Append(startup, "greeting")
  /\ event' = None
  /\ UNCHANGED <<mainVars, roomVars, video_track, latest_image, chatVars>>

\* Lines 127-130: the `while` test and the loop body up to its next
\* suspension point. The result is <<pc, video_track>>.
LoopHead(state, rm, held) ==
  IF state # "CONN_CONNECTED" THEN <<"returned", held>>
  ELSE LET fut == get_video_track(rm)
       IN IF fut.raised THEN <<"raised", held>>
          ELSE IF fut.done THEN <<"stream", fut.result>>
          ELSE <<"await_track", held>>

\* Line 125 returns and the observer loop is entered.
GreetingDone ==
  /\ pc = "greeting"
  /\ LET next == LoopHead(connection_state, room, video_track)
     IN /\ pc' = next[1]
        /\ video_track' = next[2]
  /\ startup' = Append(startup, "observer_loop")
  /\ event' = None
  /\ UNCHANGED <<mainVars, roomVars, latest_image, chatVars>>

\* True while the track the observer holds is still published as video.
TrackLive(rm, track) ==
  /\ track[1] \in 1..Len(rm)
  /\ track[2] \in 1..Len(rm[track[1]])
  /\ IsVideo(rm[track[1]][track[2]])

\* Frames taken from the first live video track while the greeting is still
\* being spoken, as if the observer ran beside the greeting.
FrameReceived_DuringGreeting ==
  /\ pc \in {"greeting", "stream"}
  /\ connection_state = "CONN_CONNECTED"
  /\ \E p \in 1..Len(room) : \E i \in 1..Len(room[p]) :
       /\ IsVideo(room[p][i])
       /\ latest_image' = Some(<<p, i>>)
  /\ event' = None
  /\ UNCHANGED <<mainVars, roomVars, pc, video_track, chatVars, startup>>

\* Lines 130-133: the VideoStream yields a frame of the held track.
FrameReceived ==
  /\ pc = "stream"
  /\ connection_state = "CONN_CONNECTED"
  /\ TrackLive(room, video_track[1])
  /\ latest_image' = Some(video_track[1])
  /\ event' = None
  /\ UNCHANGED <<mainVars, roomVars, pc, video_track, chatVars, startup>>

\* StreamEnded that clears the slot when the stream of its track ends.
StreamEnded_ClearsSlot ==
  /\ pc = "stream"
  /\ connection_state # "CONN_CONNECTED" \/ ~TrackLive(room, video_track[1])
  /\ LET next == LoopHead(connection_state, room, video_track)
     IN /\ pc' = next[1]
        /\ video_track' = next[2]
  /\ latest_image' = None
  /\ event' = None
  /\ UNCHANGED <<mainVars, roomVars, chatVars, startup>>

\* Line 130: the VideoStream is exhausted (its track ended or the room
\* disconnected); control returns to the `while` test.
StreamEnded ==
  /\ pc = "stream"
  /\ connection_state # "CONN_CONNECTED" \/ ~TrackLive(room, video_track[1])
  /\ LET next == LoopHead(connection_state, room, video_track)
     IN /\ pc' = next[1]
        /\ video_track' = next[2]
  /\ event' = None
  /\ UNCHANGED <<mainVars, roomVars, latest_image, chatVars, startup>>

\* ---------------------------------------------------------------- room
\* The room changes while the job is connecting or connected.
RoomOpen == pc = "connect" \/ connection_state = "CONN_CONNECTED"

\* A remote participant joins, with no publication yet.
ParticipantJoined ==
  /\ RoomOpen
  /\ Len(room) < MaxParticipants
  /\ room' = Append(room, <<>>)
  /\ event' = None
  /\ UNCHANGED <<mainVars, connection_state, obsVars, chatVars, startup>>

\* The number of publications of participants 1..p.
RECURSIVE NumPublications(_, _)
NumPublications(rm, p) ==
  IF p = 0 THEN 0 ELSE Len(rm[p]) + NumPublications(rm, p - 1)

\* Participant p publishes a track of the given kind.
TrackPublished(p, kind) ==
  /\ RoomOpen
  /\ NumPublications(room, Len(room)) < MaxTracks
  /\ room' = [room EXCEPT ![p] = Append(@, kind)]
  /\ event' = None
  /\ UNCHANGED <<mainVars, connection_state, obsVars, chatVars, startup>>

\* Publication i of participant p loses its track (track becomes None).
TrackEnded(p, i) ==
  /\ RoomOpen
  /\ room[p][i] # "none"
  /\ room' = [room EXCEPT ![p][i] = "none"]
  /\ event' = None
  /\ UNCHANGED <<mainVars, connection_state, obsVars, chatVars, startup>>

\* The room connection is lost.
Disconnected ==
  /\ connection_state = "CONN_CONNECTED"
  /\ connection_state' = "CONN_DISCONNECTED"
  /\ event' = None
  /\ UNCHANGED <<mainVars, room, obsVars, chatVars, startup>>

\* -------------------------------------------------------------- _answer
TextItem(text) == [kind |-> "text", text |-> text, image |-> None]

\* ChatImage(image=frame).
ChatImage(frame) == [kind |-> "image", text |-> <<>>, image |-> Some(frame)]

\* Content without the use_image test of line 96.
Content_AnyFrame(text, use_image, slot) ==
  IF slot # None
  THEN <<TextItem(text), ChatImage(slot[1])>>
  ELSE <<TextItem(text)>>

\* Lines 95-97: the content list of the user turn. A VideoFrame object is
\* truthy, so `latest_image` is falsy exactly when it is None.
Content(text, use_image, slot) ==
  IF use_image /\ slot # None
  THEN <<TextItem(text), ChatImage(slot[1])>>
  ELSE <<TextItem(text)>>

\* UserMessage with the role of the prompt.
UserMessage_AsSystem(text, use_image, slot) ==
  [role |-> "system", content |-> Content(text, use_image, slot)]

\* Line 99: ChatMessage(role="user", content=content).
UserMessage(text, use_image, slot) ==
  [role |-> "user", content |-> Content(text, use_image, slot)]

\* asyncio.create_task(_answer(text, use_image=use_image)): a task that has
\* not run yet. `ctx` is the context the task passed to gpt.chat, <<>>
\* before the call.
NewTask(text, use_image) ==
  [text |-> text, use_image |-> use_image, pc |-> "created", ctx |-> <<>>]

\* The event loop runs ready callbacks first in, first out: a created task
\* takes its first step after every task created before it.
Runnable(k) ==
  /\ k \in 1..Len(tasks)
  /\ tasks[k].pc = "created"
  /\ \A j \in 1..(k - 1) : tasks[j].pc # "created"

\* AnswerStep that rebuilds the context from the prompt and the new turn,
\* dropping the turns in between.
AnswerStep_Rebuilds(k, chatOk) ==
  /\ Runnable(k)
  /\ LET t == tasks[k]
         messages == <<chat_context[1], UserMessage(t.text, t.use_image, latest_image)>>
     IN /\ chat_context' = messages
        /\ tasks' = [tasks EXCEPT ![k].pc = IF chatOk THEN "say" ELSE "failed",
                                  ![k].ctx = messages]
  /\ event' = None
  /\ UNCHANGED <<mainVars, roomVars, obsVars, startup>>

\* AnswerStep passing gpt.chat the new turn alone instead of the chat
\* context.
AnswerStep_TurnOnly(k, chatOk) ==
  /\ Runnable(k)
  /\ LET t == tasks[k]
         messages == Append(chat_context, UserMessage(t.text, t.use_image, latest_image))
     IN /\ chat_context' = messages
        /\ tasks' = [tasks EXCEPT ![k].pc = IF chatOk THEN "say" ELSE "failed",
                                  ![k].ctx = <<messages[Len(messages)]>>]
  /\ event' = None
  /\ UNCHANGED <<mainVars, roomVars, obsVars, startup>>

\* AnswerStep that takes its user turn back when gpt.chat raises.
AnswerStep_RollsBack(k, chatOk) ==
  /\ Runnable(k)
  /\ LET t == tasks[k]
         messages == Append(chat_context, UserMessage(t.text, t.use_image, latest_image))
     IN /\ chat_context' = IF chatOk THEN messages ELSE chat_context
        /\ tasks' = [tasks EXCEPT ![k].pc = IF chatOk THEN "say" ELSE "failed",
                                  ![k].ctx = messages]
  /\ event' = None
  /\ UNCHANGED <<mainVars, roomVars, obsVars, startup>>

\* AnswerStep calling gpt.chat before the user turn is appended.
AnswerStep_ChatFirst(k, chatOk) ==
  /\ Runnable(k)
  /\ LET t == tasks[k]
         messages == Append(chat_context, UserMessage(t.text, t.use_image, latest_image))
     IN /\ chat_context' = messages
        /\ tasks' = [tasks EXCEPT ![k].pc = IF chatOk THEN "say" ELSE "failed",
                                  ![k].ctx = chat_context]
  /\ event' = None
  /\ UNCHANGED <<mainVars, roomVars, obsVars, startup>>

\* Lines 95-102, the first step of task k: build the content, append the
\* user turn, call gpt.chat with the chat context; the call either returns
\* a stream (the task suspends in `await assistant.say`) or raises.
AnswerStep(k, chatOk) ==
  /\ Runnable(k)
  /\ LET t == tasks[k]
         messages == Append(chat_context, UserMessage(t.text, t.use_image, latest_image))
     IN /\ chat_context' = messages
        /\ tasks' = [tasks EXCEPT ![k].pc = IF chatOk THEN "say" ELSE "failed",
                                  ![k].ctx = messages]
  /\ event' = None
  /\ UNCHANGED <<mainVars, roomVars, obsVars, startup>>

\* Line 102 returns: task k ends normally.
SayDone(k) ==
  /\ k \in 1..Len(tasks)
  /\ tasks[k].pc = "say"
  /\ tasks' = [tasks EXCEPT ![k].pc = "done"]
  /\ event' = None
  /\ UNCHANGED <<mainVars, roomVars, obsVars, chat_context, startup>>

\* SayFailed with the exception reaching entrypoint, as it would had the
\* handler awaited _answer there.
SayFailed_Propagates(k) ==
  /\ k \in 1..Len(tasks)
  /\ tasks[k].pc = "say"
  /\ tasks' = [tasks EXCEPT ![k].pc = "failed"]
  /\ pc' = "raised"
  /\ event' = None
  /\ UNCHANGED <<mainVars, roomVars, video_track, latest_image, chat_context, startup>>

\* Line 102 raises (speech synthesis failed): the exception ends task k and
\* stays in the task object, which nobody awaits.
SayFailed(k) ==
  /\ k \in 1..Len(tasks)
  /\ tasks[k].pc = "say"
  /\ tasks' = [tasks EXCEPT ![k].pc = "failed"]
  /\ event' = None
  /\ UNCHANGED <<mainVars, roomVars, obsVars, chat_context, startup>>

\* ------------------------------------------------------------- handlers
MessageEvent(text) ==
  [kind |-> "message_received", message |-> text, called_functions |-> <<>>]

FunctionCallsEvent(called_functions) ==
  [kind |-> "function_calls_finished", message |-> <<>>,
   called_functions |-> called_functions]

\* Events reach the handlers once these are registered, while the room is
\* connected.
Dispatching ==
  /\ HandlersRegistered
  /\ connection_state = "CONN_CONNECTED"
  /\ Len(tasks) < MaxTasks

\* on_message_received without the test of line 108.
on_message_received_NoTest(message) ==
  /\ Dispatching
  /\ tasks' = Append(tasks, NewTask(message, FALSE))
  /\ event' = Some(MessageEvent(message))
  /\ UNCHANGED <<mainVars, roomVars, obsVars, chat_context, startup>>

\* on_message_received with the image flag of the other handler.
on_message_received_WithImage(message) ==
  /\ Dispatching
  /\ tasks' = IF StrTruthy(message)
              THEN Append(tasks, NewTask(message, TRUE))
              ELSE tasks
  /\ event' = Some(MessageEvent(message))
  /\ UNCHANGED <<mainVars, roomVars, obsVars, chat_context, startup>>

\* Lines 104-109.
on_message_received(message) ==
  /\ Dispatching
  /\ tasks' = IF StrTruthy(message)
              THEN Append(tasks, NewTask(message, FALSE))
              ELSE tasks
  /\ event' = Some(MessageEvent(message))
  /\ UNCHANGED <<mainVars, roomVars, obsVars, chat_context, startup>>

\* The calls of a batch that carry a non-empty user_msg.
WithMessage(called_functions) ==
  {i \in 1..Len(called_functions) : OptStrTruthy(called_functions[i])}

\* on_function_calls_finished honouring the first call of the batch that
\* carries a non-empty user_msg.
on_function_calls_finished_AnyCall(called_functions) ==
  /\ Dispatching
  /\ tasks' = IF WithMessage(called_functions) = {} THEN tasks
              ELSE LET i == CHOOSE i \in WithMessage(called_functions) :
                              \A j \in WithMessage(called_functions) : i <= j
                   IN Append(tasks, NewTask(called_functions[i][1], TRUE))
  /\ event' = Some(FunctionCallsEvent(called_functions))
  /\ UNCHANGED <<mainVars, roomVars, obsVars, chat_context, startup>>

\* on_function_calls_finished reading the last call of the batch instead of
\* the first.
on_function_calls_finished_Last(called_functions) ==
  /\ Dispatching
  /\ tasks' = IF Len(called_functions) = 0 THEN tasks
              ELSE LET user_msg == called_functions[Len(called_functions)]
                   IN IF OptStrTruthy(user_msg)
                      THEN Append(tasks, NewTask(user_msg[1], TRUE))
                      ELSE tasks
  /\ event' = Some(FunctionCallsEvent(called_functions))
  /\ UNCHANGED <<mainVars, roomVars, obsVars, chat_context, startup>>

\* Lines 111-120.
on_function_calls_finished(called_functions) ==
  /\ Dispatching
  /\ tasks' = IF Len(called_functions) = 0 THEN tasks
              ELSE LET user_msg == called_functions[1]
                   IN IF OptStrTruthy(user_msg)
                      THEN Append(tasks, NewTask(user_msg[1], TRUE))
                      ELSE tasks
  /\ event' = Some(FunctionCallsEvent(called_functions))
  /\ UNCHANGED <<mainVars, roomVars, obsVars, chat_context, startup>>

\* ------------------------------------------------------- specification
Next ==
  \/ Main
  \/ JobStart
  \/ Connected
  \/ SleepDone
  \/ GreetingDone
  \/ FrameReceived
  \/ StreamEnded
  \/ ParticipantJoined
  \/ \E p \in 1..Len(room), kind \in TrackKinds : TrackPublished(p, kind)
  \/ \E p \in 1..Len(room) : \E i \in 1..Len(room[p]) : TrackEnded(p, i)
  \/ Disconnected
  \/ \E k \in 1..Len(tasks), chatOk \in BOOLEAN : AnswerStep(k, chatOk)
  \/ \E k \in 1..Len(tasks) : SayDone(k)
  \/ \E k \in 1..Len(tasks) : SayFailed(k)
  \/ \E message \in ChatTexts : on_message_received(message)
  \/ \E called_functions \in Batches : on_function_calls_finished(called_functions)

Spec == Init /\ [][Next]_vars

\* The event loop runs every callback that is ready, and the room delivers
\* the frames of a live track: each step of the program itself is taken
\* if it stays possible. Nothing is assumed of the room's participants, of
\* the events or of failures.
Fairness ==
  /\ WF_vars(Main)
  /\ WF_vars(JobStart)
  /\ WF_vars(Connected)
  /\ WF_vars(SleepDone)
  /\ WF_vars(GreetingDone)
  /\ WF_vars(FrameReceived)
  /\ WF_vars(StreamEnded)
  /\ WF_vars(\E k \in 1..Len(tasks) : AnswerStep(k, TRUE))
  /\ WF_vars(\E k \in 1..Len(tasks) : SayDone(k))

FairSpec == Spec /\ Fairness

\* ================================================================ claims

\* The event dispatched by the step into the next state.
Dispatched(e) == event' = Some(e)

\* C1: every chat-message-received event with a non-empty text T starts
\* exactly one respond invocation, with arguments (T, use_image = FALSE):
\* the step that dispatches it adds that one task after the tasks that
\* exist, whatever their state.
C1_OneRespondPerMessage ==
  [][\A T \in ChatTexts :
       (Dispatched(MessageEvent(T)) /\ StrTruthy(T))
         => tasks' = Append(tasks, NewTask(T, FALSE))]_vars

\* A non-empty chat message was dispatched while an earlier respond task was
\* in flight, and its task is the newest one.
C1_Witness ==
  /\ event = Some(MessageEvent(<<"a">>))
  /\ Len(tasks) = 2
  /\ tasks[1].pc = "say"
  /\ tasks[2] = NewTask(<<"a">>, FALSE)

\* C2 as stated: a chat-message-received event whose text is empty or
\* whitespace-only starts no respond invocation and leaves Conversation
\* State unchanged.
C2_BlankIgnored ==
  [][\A T \in ChatTexts :
       (Dispatched(MessageEvent(T)) /\ IsBlank(T))
         => UNCHANGED <<tasks, chat_context>>]_vars

\* C2 as amended: a chat-message-received event whose text is empty starts
\* no respond invocation and leaves Conversation State unchanged (a text of
\* blanks only is non-empty and starts one, as C1 says).
C2_EmptyIgnored ==
  [][(Dispatched(MessageEvent(<<>>)))
       => UNCHANGED <<tasks, chat_context>>]_vars

\* An empty chat message was dispatched once the handlers were registered.
C2_Witness ==
  /\ event = Some(MessageEvent(<<>>))
  /\ HandlersRegistered
  /\ tasks = <<>>
  /\ chat_context = <<SystemMessage>>

\* C3 as stated: an empty batch starts no respond; a batch whose first call
\* has a present user_msg starts exactly one respond(user_msg, TRUE) and
\* nothing else.
C3_FirstCallPresent ==
  [][\A B \in Batches :
       Dispatched(FunctionCallsEvent(B))
         => IF Len(B) = 0 THEN tasks' = tasks
            ELSE (B[1] # None => tasks' = Append(tasks, NewTask(B[1][1], TRUE)))]_vars

\* C3 as amended: an empty batch starts no respond; a batch whose first call
\* has a present and non-empty user_msg starts exactly one
\* respond(user_msg, TRUE), and no other call of the batch starts one.
C3_FirstCallNonEmpty ==
  [][\A B \in Batches :
       Dispatched(FunctionCallsEvent(B))
         => IF Len(B) = 0 THEN tasks' = tasks
            ELSE ((B[1] # None /\ StrTruthy(B[1][1]))
                    => tasks' = Append(tasks, NewTask(B[1][1], TRUE)))]_vars

\* A batch of two calls was dispatched, the first with user_msg "b", the
\* second without one, and one task was started for it.
C3_Witness ==
  /\ event = Some(FunctionCallsEvent(<<Some(<<"b">>), None>>))
  /\ tasks = <<NewTask(<<"b">>, TRUE)>>

\* The respond invocations that have reached the model call.
Started == {k \in 1..Len(tasks) : tasks[k].pc # "created"}

UserTurns(messages) == {i \in 1..Len(messages) : messages[i].role = "user"}

\* C4: every respond invocation appends exactly one user message, before
\* its model call: the context a task passed to the model ends with that
\* task's user turn, and Conversation State holds as many user messages as
\* there are invocations that have reached the model call.
C4_OneUserTurnBeforeModel ==
  /\ Cardinality(UserTurns(chat_context)) = Cardinality(Started)
  /\ \A k \in Started :
       LET ctx == tasks[k].ctx
       IN /\ Len(ctx) >= 2
          /\ ctx[Len(ctx)].role = "user"
          /\ ctx[Len(ctx)].content[1] = TextItem(tasks[k].text)
          /\ Cardinality(UserTurns(ctx))
               = Cardinality({j \in Started : Len(tasks[j].ctx) <= Len(ctx)})

\* Two invocations, one with and one without use_image, have reached the
\* model call.
C4_Witness ==
  /\ Len(tasks) = 2
  /\ Started = {1, 2}
  /\ tasks[1].use_image /\ ~tasks[2].use_image
  /\ Len(chat_context) = 3

\* C5: the user turn appended by respond(text, use_image) is [text, image]
\* with image the current Latest Frame Slot value iff use_image is true and
\* the slot is non-absent, and [text] alone otherwise.
C5_ImageIffRequestedAndPresent ==
  [][\A k \in 1..Len(tasks) :
       (tasks[k].pc = "created" /\ tasks'[k].pc # "created")
         => /\ Len(chat_context') = Len(chat_context) + 1
            /\ LET turn == chat_context'[Len(chat_context')]
               IN /\ turn.role = "user"
                  /\ IF tasks[k].use_image /\ latest_image # None
                     THEN turn.content = <<TextItem(tasks[k].text),
                                           ChatImage(latest_image[1])>>
                     ELSE turn.content = <<TextItem(tasks[k].text)>>]_vars

\* Two turns were appended with a frame in the slot: one with use_image,
\* which carries that frame, and one without use_image, which is text only.
C5_Witness ==
  /\ latest_image # None
  /\ \E k \in Started :
       /\ tasks[k].use_image
       /\ tasks[k].ctx[Len(tasks[k].ctx)].content
            = <<TextItem(tasks[k].text), ChatImage(latest_image[1])>>
  /\ \E k \in Started :
       /\ ~tasks[k].use_image
       /\ Len(tasks[k].ctx) = Len(chat_context)
       /\ Len(tasks[k].ctx[Len(tasks[k].ctx)].content) = 1

\* C7: if either credential variable is missing or empty at startup, the
\* program aborts: no token is generated, the worker is never started and
\* no room connection is attempted.
C7_NoCredentialsNoStart ==
  (~OptStrTruthy(api_key) \/ ~OptStrTruthy(api_secret))
    => /\ token = None
       /\ mainPc \in {"start", "aborted"}
       /\ pc = "idle"
       /\ connection_state = "CONN_DISCONNECTED"

\* The program has aborted with the key set and the secret empty.
C7_Witness ==
  /\ mainPc = "aborted"
  /\ api_key = Some(<<"k">>)
  /\ api_secret = Some(<<>>)

\* Task k fails in this step.
Fails(k) == tasks[k].pc # "failed" /\ tasks'[k].pc = "failed"

\* C8: a failure of the model call or of speech synthesis in one respond
\* task stays in that task: the step leaves the observer loop and every
\* other task as they are; and a trigger accepted after a failure still
\* starts its own respond invocation.
C8_FailureIsolated ==
  [][/\ \A k \in 1..Len(tasks) :
          Fails(k) => /\ UNCHANGED <<pc, video_track, latest_image, roomVars>>
                      /\ Len(tasks') = Len(tasks)
                      /\ \A j \in 1..Len(tasks) : j # k => tasks'[j] = tasks[j]
     /\ \A T \in ChatTexts :
          (Dispatched(MessageEvent(T)) /\ StrTruthy(T)
             /\ \E k \in 1..Len(tasks) : tasks[k].pc = "failed")
            => tasks' = Append(tasks, NewTask(T, FALSE))
     /\ \A B \in Batches :
          (Dispatched(FunctionCallsEvent(B)) /\ Len(B) > 0 /\ OptStrTruthy(B[1])
             /\ \E k \in 1..Len(tasks) : tasks[k].pc = "failed")
            => tasks' = Append(tasks, NewTask(B[1][1], TRUE))]_vars

\* The first task has failed; the observer loop is
\* still consuming frames and a trigger dispatched after the failure has
\* started a second task.
C8_Witness ==
  /\ Len(tasks) = 2
  /\ tasks[1].pc = "failed"
  /\ tasks[2].pc = "created"
  /\ event # None
  /\ pc = "stream"

\* The tracks a room can hold.
TrackIds == (1..MaxParticipants) \X (1..MaxTracks)

\* The live video tracks of the room.
VideoTracks(rm) == {t \in TrackIds : TrackLive(rm, t)}

\* C9 as stated: while the room stays connected, a remote video track that
\* is published at any time (also after the loop started with none present,
\* or after an observed track ended) eventually has one of its frames in
\* the Latest Frame Slot. The statement is kept to the track that is the
\* only video track of the room, and is discharged when the room
\* disconnects or the track ends first.
C9_PublishedTrackObserved ==
  \A t \in TrackIds :
    (connection_state = "CONN_CONNECTED" /\ VideoTracks(room) = {t})
      ~> \/ latest_image = Some(t)
         \/ connection_state # "CONN_CONNECTED"
         \/ VideoTracks(room) # {t}

\* The first video track in scan order: participants in order, then each
\* participant's publications in order.
FirstVideo(rm) ==
  CHOOSE t \in VideoTracks(rm) :
    \A u \in VideoTracks(rm) : t[1] < u[1] \/ (t[1] = u[1] /\ t[2] <= u[2])

\* The observer loop calls get_video_track in this step: the greeting or a
\* frame stream has ended while the room is connected.
CallsGetVideoTrack ==
  /\ GreetingDone \/ StreamEnded
  /\ connection_state = "CONN_CONNECTED"

\* C10 as stated: in every room where at least one remote participant
\* publishes a video track, get_video_track completes, returns the first
\* video track in scan order and does not raise.
C10_FirstVideoTrackReturned ==
  [][(CallsGetVideoTrack /\ VideoTracks(room) # {})
       => /\ pc' = "stream"
          /\ video_track' = Some(FirstVideo(room))]_vars

\* Conversation State exists once entrypoint has built it (lines 56-66).
ContextBuilt == pc \notin {"idle", "connect"}

SystemTurns(messages) == {i \in 1..Len(messages) : messages[i].role = "system"}

\* C11: in every state where Conversation State exists it holds exactly one
\* message with role system, and that message is the first; respond
\* invocations neither add, remove nor move a system message.
C11_OneSystemMessageFirst ==
  ContextBuilt => /\ SystemTurns(chat_context) = {1}
                  /\ chat_context[1] = SystemMessage

\* Two respond invocations have appended their turns after the prompt.
C11_Witness ==
  /\ Len(chat_context) = 3
  /\ Started = {1, 2}

\* C12: Conversation State is append-only: in every step the previous
\* message sequence is a prefix of the new one, so that no message is
\* removed, reordered or rewritten and the length never decreases.
C12_AppendOnly ==
  [][/\ Len(chat_context') >= Len(chat_context)
     /\ SubSeq(chat_context', 1, Len(chat_context)) = chat_context]_vars

\* A second respond invocation has appended its turn after the first one's.
C12_Witness ==
  /\ Len(chat_context) = 3
  /\ tasks[1].ctx = SubSeq(chat_context, 1, 2)
  /\ tasks[2].ctx = chat_context

\* Task k makes its model call in this step.
CallsModel(k) == tasks[k].pc = "created" /\ tasks'[k].pc # "created"

\* C13: the context a respond call passes to the language model is the full
\* Conversation State: it starts with the system prompt and its last
\* message is the user turn that this call appended, with no other task's
\* append in between.
C13_ModelSeesFullHistory ==
  [][\A k \in 1..Len(tasks) :
       CallsModel(k)
         => LET ctx == tasks'[k].ctx
            IN /\ ctx = chat_context'
               /\ Len(ctx) = Len(chat_context) + 1
               /\ SubSeq(ctx, 1, Len(chat_context)) = chat_context
               /\ ctx[1] = SystemMessage
               /\ ctx[Len(ctx)].role = "user"
               /\ ctx[Len(ctx)].content[1] = TextItem(tasks[k].text)]_vars

\* The second of two tasks has made its model call while the first is still
\* in speech synthesis, with the first task's turn before its own.
C13_Witness ==
  /\ Len(tasks) = 2
  /\ tasks[1].pc = "say"
  /\ tasks[2].pc = "say"
  /\ tasks[1].text # tasks[2].text
  /\ Len(tasks[2].ctx) = 3
  /\ tasks[2].ctx[2].content[1] = TextItem(tasks[1].text)
  /\ tasks[2].ctx[3].content[1] = TextItem(tasks[2].text)

\* C15 as stated: once the room is no longer connected, the observer loop
\* exits and entrypoint returns, whether the loop was waiting for a video
\* track or consuming the frames of one.
C15_DisconnectEndsLoop ==
  (pc \in {"await_track", "stream"} /\ connection_state = "CONN_DISCONNECTED")
    ~> (pc = "returned")

\* The order of the statements of entrypoint.
EntrypointOrder ==
  <<"connect", "on_message_received", "on_function_calls_finished",
    "assistant.start", "greeting", "observer_loop">>

Ran(statement) == \E i \in 1..Len(startup) : startup[i] = statement

\* The respond invocation an event starts, if it starts one.
Accepted(e) ==
  IF e.kind = "message_received"
  THEN IF StrTruthy(e.message) THEN Some(NewTask(e.message, FALSE)) ELSE None
  ELSE IF Len(e.called_functions) > 0 /\ OptStrTruthy(e.called_functions[1])
       THEN Some(NewTask(e.called_functions[1][1], TRUE))
       ELSE None

\* C16: entrypoint runs its statements in a fixed order: connect, the
\* registration of the two handlers, the start of the assistant, the
\* greeting, the observer loop. No event is dispatched before both handlers
\* are registered, and an event accepted during the startup delay or the
\* greeting starts its respond invocation.
C16_StartupOrder ==
  [][/\ Len(startup') <= Len(EntrypointOrder)
     /\ startup' = SubSeq(EntrypointOrder, 1, Len(startup'))
     /\ pc' = "sleep" <=> Len(startup') = 4
     /\ pc' = "greeting" <=> Len(startup') = 5
     /\ event' # None
          => /\ Ran("on_message_received") /\ Ran("on_function_calls_finished")
             /\ (pc \in {"sleep", "greeting"} /\ Accepted(event'[1]) # None)
                  => tasks' = Append(tasks, Accepted(event'[1])[1])]_vars

\* An event dispatched during the greeting, before the observer loop, has
\* started a respond invocation.
C16_Witness ==
  /\ pc = "greeting"
  /\ startup = SubSeq(EntrypointOrder, 1, 5)
  /\ event = Some(MessageEvent(<<"a">>))
  /\ tasks = <<NewTask(<<"a">>, FALSE)>>

\* C17: the Latest Frame Slot is written by the observer loop alone and the
\* last write wins: a received frame becomes the slot's value, every other
\* step (respond tasks, handlers, the end of a stream) leaves the slot as it
\* is, and a slot that holds a frame never becomes absent again.
C17_SlotWrittenByObserverOnly ==
  [][/\ FrameReceived => latest_image' = Some(video_track[1])
     /\ latest_image' # latest_image
          => /\ pc = "stream" /\ pc' = "stream"
             /\ latest_image' = Some(video_track[1])
             /\ UNCHANGED <<chat_context, tasks>>
             /\ event' = None
     /\ latest_image # None => latest_image' # None]_vars

\* The slot holds a frame of the second track the observer took, after the
\* first one ended; a respond task has run meanwhile.
C17_Witness ==
  /\ latest_image = Some(<<1, 2>>)
  /\ room[1][1] = "none"
  /\ pc = "stream"
  /\ Started # {}

\* C18: a function-calls-finished batch whose first call has a missing or
\* empty user_msg is ignored, even when a later call of the batch carries a
\* non-empty one: no respond invocation starts, Conversation State is
\* unchanged and entrypoint goes on (nothing is raised).
C18_FirstCallWithoutMessageIgnored ==
  [][\A B \in Batches :
       (Dispatched(FunctionCallsEvent(B)) /\ Len(B) > 0
          /\ (B[1] = None \/ B[1] = Some(<<>>)))
         => UNCHANGED <<tasks, chat_context, pc, latest_image>>]_vars

\* A batch whose first call has no user_msg and whose second call has
\* user_msg "b" was dispatched, and no task exists.
C18_Witness ==
  /\ event = Some(FunctionCallsEvent(<<None, Some(<<"b">>)>>))
  /\ tasks = <<>>
  /\ chat_context = <<SystemMessage>>

\* C19: the Latest Frame Slot stays absent until the greeting has finished,
\* and every respond(msg, use_image = TRUE) that makes its model call before
\* that appends a text-only turn, also when a participant publishes video.
C19_NoFrameBeforeGreetingEnds ==
  [][/\ pc' \in {"idle", "connect", "sleep", "greeting"} => latest_image' = None
     /\ \A k \in 1..Len(tasks) :
          (CallsModel(k) /\ pc \in {"sleep", "greeting"})
            => chat_context' = Append(chat_context,
                 [role |-> "user", content |-> <<TextItem(tasks[k].text)>>])]_vars

\* During the greeting, with a video track published, a respond task with
\* use_image has appended a text-only turn.
C19_Witness ==
  /\ pc = "greeting"
  /\ VideoTracks(room) # {}
  /\ Len(tasks) >= 1
  /\ tasks[1].use_image
  /\ tasks[1].pc # "created"
  /\ chat_context[2].content = <<TextItem(tasks[1].text)>>

\* C20: a respond invocation that fails at the model call or in speech
\* synthesis is not rolled back: its user turn stays where it was appended
\* in Conversation State and is in the context of every later model call.
C20_FailedTurnKept ==
  \A k \in 1..Len(tasks) :
    tasks[k].pc = "failed"
      => LET ctx == tasks[k].ctx
         IN /\ Len(chat_context) >= Len(ctx)
            /\ SubSeq(chat_context, 1, Len(ctx)) = ctx
            /\ ctx[Len(ctx)].role = "user"
            /\ ctx[Len(ctx)].content[1] = TextItem(tasks[k].text)
            /\ \A j \in Started :
                 j > k => /\ Len(tasks[j].ctx) > Len(ctx)
                          /\ SubSeq(tasks[j].ctx, 1, Len(ctx)) = ctx

\* The first task failed and the second made its model call afterwards,
\* with the failed task's turn in its context.
C20_Witness ==
  /\ Len(tasks) = 2
  /\ tasks[1].pc = "failed"
  /\ tasks[2].pc = "say"
  /\ tasks[2].ctx[2].content[1] = TextItem(tasks[1].text)
  /\ Len(chat_context) = 3

====
